---- MODULE Spec2Model ----
(***************************************************************************)
(* Fujifilm Grain Simulator: the grain stage (js/grainProcessor.js), the   *)
(* LUT stage (LUTProcessor) and the application pipeline (js/app.js).      *)
(*                                                                         *)
(* Numbers.  JavaScript numbers are modelled in fixed point: a real v is   *)
(* the integer 1000*v ("milli").  Products are rounded toward zero after   *)
(* each multiplication.  8-bit samples (0..255) are plain integers.        *)
(* A pixel buffer (ImageData, or the bitmap of a canvas) is a record       *)
(* [width, data] with data a row of pixels [r, g, b, a]; height is 1.      *)
(* A canvas stores the RGBA samples it is given (straight alpha).          *)
(* Images are scaled down: a row of one or two pixels stands for a file    *)
(* that passed FileValidator's checks of type, size and dimensions.        *)
(***************************************************************************)
EXTENDS Integers, Sequences, FiniteSets, TLC

VARIABLES
    canvases,        \* heap of canvas bitmaps, by canvas id (1 is GrainProcessor.canvas,
                     \* 2 is the page's #processedCanvas)
    lastGrain,       \* the last grain pass: the ImageData buffer before and after it
    lastLut,         \* the last LUTProcessor.applyLUT call: its argument and its result
    results,         \* the last two results handed back to the caller of a grain call
    lutCache,        \* LUTProcessor.lutCache
    isInitialized,   \* LUTProcessor.isInitialized
    originalImage,   \* FujiGrainApp.originalImage (NoBitmap is null)
    currentSettings, \* FujiGrainApp.currentSettings
    processedCanvas, \* FujiGrainApp.processedCanvas: a canvas id, 0 is null
    controlsEnabled, \* the controls enableControls switches, other than Download
    downloadEnabled, \* the Download button
    loading,         \* the loading spinner and overlay are shown
    runs,            \* the applyGrain invocations in progress
    fileLoad,        \* the handleFileSelect invocation in progress
    completed,       \* the last two applyGrain invocations that published a result
    budget,          \* how many events of each bounded kind have happened
    availableLUTs,   \* the identifiers offered by the LUT dropdown besides none and custom
    calls,           \* the last two calls of a function made by a direct caller
    initStarts       \* how many times LUTProcessor._initializeInternal was called;
                     \* initPromise is set once it is positive

procVars == <<canvases, lastGrain, lastLut, results, lutCache, isInitialized, initStarts>>

appVars == <<processedCanvas, controlsEnabled, downloadEnabled, loading, runs,
             fileLoad, completed, budget, availableLUTs>>

vars == <<canvases, lastGrain, lastLut, results, lutCache, isInitialized,
          originalImage, currentSettings, processedCanvas, controlsEnabled,
          downloadEnabled, loading, runs, fileLoad, completed, budget,
          availableLUTs, calls, initStarts>>

-----------------------------------------------------------------------------
(* Arithmetic helpers                                                      *)

Abs(x) == IF x < 0 THEN -x ELSE x

Max(a, b) == IF a > b THEN a ELSE b

Min(a, b) == IF a < b THEN a ELSE b

\* a / b for integers, rounded toward zero
QuotZ(a, b) == IF a >= 0 THEN a \div b ELSE -((-a) \div b)

\* product of two milli numbers, in milli
MulM(a, b) == QuotZ(a * b, 1000)

\* Math.floor of a milli number, as an integer
Floor(v) == v \div 1000

\* Math.exp(-t) for t >= 0 in milli: the power series, 12 terms
RECURSIVE ExpSeries(_, _, _, _)
ExpSeries(t, k, term, acc) ==
    IF k > 12 THEN acc
    ELSE LET next == -QuotZ(term * t, 1000 * k)
         IN  ExpSeries(t, k + 1, next, acc + next)

ExpNeg(t) == Max(0, ExpSeries(t, 1, 1000, 1000))

-----------------------------------------------------------------------------
(* Pixel buffers                                                           *)

NoBitmap == [width |-> 0, data |-> <<>>]

Pixel(r, g, b, a) == [r |-> r, g |-> g, b |-> b, a |-> a]

Bitmap(pixels) == [width |-> Len(pixels), data |-> pixels]

\* Storing a number into a Uint8ClampedArray element: clamp to 0..255 and
\* round to the nearest integer, ties to even.
Uint8ClampedStore(v) ==
    IF v <= 0 THEN 0
    ELSE IF v >= 255000 THEN 255
    ELSE LET f == v \div 1000
             r == v % 1000
         IN  IF r < 500 THEN f
             ELSE IF r > 500 THEN f + 1
             ELSE IF f % 2 = 0 THEN f ELSE f + 1

-----------------------------------------------------------------------------
(* GrainProcessor                                                          *)

IsoKeys == {"100", "200", "400", "800", "1600", "3200"}

IsoTable(iso) ==
    CASE iso = "100"  -> [intensity |-> 80,  size |-> 700,  contrast |-> 300]
      [] iso = "200"  -> [intensity |-> 120, size |-> 800,  contrast |-> 400]
      [] iso = "400"  -> [intensity |-> 180, size |-> 900,  contrast |-> 500]
      [] iso = "800"  -> [intensity |-> 250, size |-> 1000, contrast |-> 600]
      [] iso = "1600" -> [intensity |-> 350, size |-> 1200, contrast |-> 700]
      [] iso = "3200" -> [intensity |-> 500, size |-> 1500, contrast |-> 800]

\* names that the object literal `params` inherits from Object.prototype
ObjectPrototypeKeys == {"constructor", "toString", "valueOf", "hasOwnProperty"}

\* the inherited member params[iso]: a function, which is truthy and has no
\* intensity, size or contrast
ObjectMember(iso) == [inherited |-> iso]

\* params[iso] || params[800]: the property lookup goes through the own keys
\* of the literal and then through its prototype
_getIsoParameters(iso) ==
    IF iso \in IsoKeys THEN IsoTable(iso)
    ELSE IF iso \in ObjectPrototypeKeys THEN ObjectMember(iso)
    ELSE IsoTable("800")

_clamp(value) == Max(0, Min(255000, value))

\* (0.299 r + 0.587 g + 0.114 b) / 255, in milli
Luminance(p) == (299 * p.r + 587 * p.g + 114 * p.b) \div 255

\* (mutant) the base intensity at every luminance
_getFlatStrength(luminance, baseIntensity) == baseIntensity

_getAdaptiveStrength(luminance, baseIntensity) ==
    LET d            == luminance - 500
        midtoneCurve == ExpNeg((d * d) \div 180)
    IN  MulM(baseIntensity, 400 + MulM(600, midtoneCurve))

_fade(t) == MulM(MulM(MulM(t, t), t), MulM(t, MulM(t, 6000) - 15000) + 10000)

_lerp(a, b, t) == a + MulM(t, b - a)

\* The unit gradient of lattice point (ix, iy), cos and sin of
\* frac(sin(ix*12.9898 + iy*78.233) * 43758.5453) * 2 pi, in milli.
Gradient(ix, iy) ==
    CASE ix = 0 /\ iy = 0 -> <<1000, 0>>
      [] ix = 0 /\ iy = 1 -> <<409, 912>>
      [] ix = 1 /\ iy = 0 -> <<881, -472>>
      [] ix = 1 /\ iy = 1 -> <<-62, -998>>
      [] ix = 2 /\ iy = 0 -> <<936, 352>>
      [] ix = 2 /\ iy = 1 -> <<-919, -394>>
      [] ix = 3 /\ iy = 0 -> <<-934, -358>>
      [] ix = 3 /\ iy = 1 -> <<-960, 281>>
      [] ix = 4 /\ iy = 0 -> <<-701, 713>>
      [] ix = 4 /\ iy = 1 -> <<-140, 990>>

_gradientDot(ix, iy, x, y) ==
    LET grad == Gradient(ix, iy)
    IN  MulM(grad[1], x) + MulM(grad[2], y)

_generateCoherentNoise(x, y) ==
    LET X   == Floor(x)
        Y   == Floor(y)
        xf  == x - 1000 * X
        yf  == y - 1000 * Y
        n00 == _gradientDot(X, Y, xf, yf)
        n01 == _gradientDot(X, Y + 1, xf, yf - 1000)
        n10 == _gradientDot(X + 1, Y, xf - 1000, yf)
        n11 == _gradientDot(X + 1, Y + 1, xf - 1000, yf - 1000)
        u   == _fade(xf)
        v   == _fade(yf)
        nx0 == _lerp(n00, n10, u)
        nx1 == _lerp(n01, n11, u)
    IN  _lerp(nx0, nx1, v)

\* Math.tanh(value * 2) * 0.5; tanh z by the rational approximation
\* z (27 + z^2) / (27 + 9 z^2), clipped to [-1, 1]
_applyFilmCurve(value) ==
    LET z  == 2 * value
        z2 == MulM(z, z)
        th == QuotZ(z * (27000 + z2), 27000 + 9 * z2)
    IN  QuotZ(Max(-1000, Min(1000, th)), 2)

\* one element grain[0][x] of _generateMonochromaticGrain
CoherentGrainAt(x, grainSize) ==
    LET scale(i) == MulM(CASE i = 0 -> 1000 [] i = 1 -> 2000 [] i = 2 -> 4000, grainSize)
        noise(i) == _generateCoherentNoise(QuotZ(1000 * 1000 * x, scale(i)), 0)
        sum      == noise(0) + QuotZ(noise(1), 2) + QuotZ(noise(2), 3)
    IN  _applyFilmCurve(QuotZ(sum, 3))

\* (mutant) a synthesizer that keeps a phase which every call advances
_generateGrainWithPhase(width, grainSize) ==
    [x \in 1..width |-> CoherentGrainAt((x - 1 + Len(calls)) % 3, grainSize)]

_generateMonochromaticGrain(width, grainSize) ==
    [x \in 1..width |-> CoherentGrainAt(x - 1, grainSize)]

\* one element of _generateOptimizedGrain from its three Math.random() draws
OptimizedGrainAt(draw, grainSize) ==
    LET value1 == draw[1] - 500
        value2 == draw[2] - 500
        value3 == draw[3] - 500
    IN  MulM(MulM(value1, 600) + MulM(value2, 300) + MulM(value3, 100), grainSize)

_generateOptimizedGrain(width, grainSize, draws) ==
    [x \in 1..width |-> OptimizedGrainAt(draws[x], grainSize)]

\* grainValue of each pixel: grainPattern[y][x] * adaptiveStrength * 255
GrainValues(data, grainPattern, grainIntensity) ==
    [x \in 1..Len(data) |->
        MulM(grainPattern[x],
             _getAdaptiveStrength(Luminance(data[x]), grainIntensity)) * 255]

\* (mutant) the sample stored without saturation: the low 8 bits of the sum
GrainSampleWrapped(sample, grainValue) == ((1000 * sample + grainValue) \div 1000) % 256

\* the write of one sample: data[i] = this._clamp(data[i] + grainValue)
GrainSample(sample, grainValue) == Uint8ClampedStore(_clamp(1000 * sample + grainValue))

\* (mutant) a grain value per channel: green gets half of it, blue its negative
GrainPixelTinted(p, grainValue) ==
    [r |-> GrainSample(p.r, grainValue),
     g |-> GrainSample(p.g, QuotZ(grainValue, 2)),
     b |-> GrainSample(p.b, -grainValue),
     a |-> p.a]

\* the per-pixel loop: the same grainValue on R, G and B, alpha not written
GrainPixel(p, grainValue) ==
    [r |-> GrainSample(p.r, grainValue),
     g |-> GrainSample(p.g, grainValue),
     b |-> GrainSample(p.b, grainValue),
     a |-> p.a]

\* (mutant) the loop works on a copy and the buffer is left as it was
GrainPassOnCopy(data, grainValues) == data

GrainPass(data, grainValues) ==
    [x \in 1..Len(data) |-> GrainPixel(data[x], grainValues[x])]

\* _applyNaturalGrain(data, width, height, settings): the grainValue of each pixel
\* (coherent path), and the contents of data after the in-place loop
NaturalGrainValues(data, settings) ==
    LET isoParams      == _getIsoParameters(settings.iso)
        grainIntensity == MulM(settings.strength, isoParams.intensity)
        grainSize      == MulM(settings.grainSize, isoParams.size)
        grainPattern   == _generateMonochromaticGrain(Len(data), grainSize)
    IN  GrainValues(data, grainPattern, grainIntensity)

_applyNaturalGrain(data, settings) == GrainPass(data, NaturalGrainValues(data, settings))

\* the loop of applyGrainOptimized (fast path): grainValue of each pixel from the
\* Math.random() draws, and the contents of data after the in-place loop
OptimizedGrainValues(data, settings, draws) ==
    LET isoParams      == _getIsoParameters(settings.iso)
        grainIntensity == MulM(settings.strength, isoParams.intensity)
        grainPattern   == _generateOptimizedGrain(Len(data),
                              MulM(isoParams.size, settings.grainSize), draws)
    IN  GrainValues(data, grainPattern, grainIntensity)

-----------------------------------------------------------------------------
(* LUTProcessor                                                            *)

\* A .cube payload is a sequence of lines.  A line is a record
\* [kind, n, vals]: kind "blank", "comment", "title", "size" (n the parsed
\* integer) or "tokens" (vals its whitespace-separated numbers, in milli).
Line(kind, n, vals) == [kind |-> kind, n |-> n, vals |-> vals]

\* the value parseFloat gives for a token that does not start with a number
NaN == -1000000000

\* Math.max(0, Math.min(1, v)), which is NaN for NaN
Clamp01(v) == IF v = NaN THEN NaN ELSE Max(0, Min(1000, v))

RECURSIVE ParseLines(_, _)
ParseLines(lines, lut) ==
    IF lines = <<>> THEN lut
    ELSE LET line == Head(lines)
             next ==
                 CASE line.kind \in {"blank", "comment"} -> lut
                   [] line.kind = "title" -> [lut EXCEPT !.title = "set"]
                   [] line.kind = "size"  -> [lut EXCEPT !.size = line.n]
                   [] OTHER ->
                        IF Len(line.vals) = 3
                        THEN [lut EXCEPT !.data = Append(@,
                                  [r |-> Clamp01(line.vals[1]),
                                   g |-> Clamp01(line.vals[2]),
                                   b |-> Clamp01(line.vals[3])])]
                        ELSE lut
         IN  ParseLines(Tail(lines), next)

\* (mutant) a parser that also rejects a row count other than size^3
parseCUBEFileStrict(content) ==
    LET lut == ParseLines(content, [size |-> 33, data |-> <<>>, title |-> "Unknown LUT"])
    IN  IF Len(lut.data) # lut.size * lut.size * lut.size
        THEN [ok |-> FALSE, lut |-> lut]
        ELSE [ok |-> TRUE, lut |-> lut]

\* parseCUBEFile: [ok |-> FALSE] models the thrown 'No valid LUT data found'
parseCUBEFile(content) ==
    LET lut == ParseLines(content, [size |-> 33, data |-> <<>>, title |-> "Unknown LUT"])
    IN  IF Len(lut.data) = 0 THEN [ok |-> FALSE, lut |-> lut]
        ELSE [ok |-> TRUE, lut |-> lut]

mix(a, b, t) == a + MulM(b - a, t)

\* the two colours are bound as values, so that each is computed once
mixColor(c1, c2, t) ==
    LET Mixed(p) == [r |-> mix(p[1].r, p[2].r, t), g |-> mix(p[1].g, p[2].g, t),
                     b |-> mix(p[1].b, p[2].b, t)]
    IN  CHOOSE c \in {Mixed(p) : p \in {<<c1, c2>>}} : TRUE

\* (mutant) the index with red as the slowest axis
LUTIndexRedSlowest(lut, x, y, z, size) ==
    Min(x * size * size + y * size + z, Len(lut.data) - 1)

\* the 0-based index getLUTColor reads; a negative one reads undefined
LUTIndex(lut, x, y, z, size) ==
    Min(z * size * size + y * size + x, Len(lut.data) - 1)

getLUTColor(lut, x, y, z, size) == lut.data[LUTIndex(lut, x, y, z, size) + 1]

\* sampleLUT3D; [ok |-> FALSE] models the TypeError thrown by mixColor when a
\* corner is undefined
sampleLUT3D(lut, r, g, b, size) ==
    LET x  == r * (size - 1)
        y  == g * (size - 1)
        z  == b * (size - 1)
        x0 == Floor(x)
        y0 == Floor(y)
        z0 == Floor(z)
        x1 == Min(x0 + 1, size - 1)
        y1 == Min(y0 + 1, size - 1)
        z1 == Min(z0 + 1, size - 1)
        dx == x - 1000 * x0
        dy == y - 1000 * y0
        dz == z - 1000 * z0
        corners == {<<x0, y0, z0>>, <<x1, y0, z0>>, <<x0, y1, z0>>, <<x1, y1, z0>>,
                    <<x0, y0, z1>>, <<x1, y0, z1>>, <<x0, y1, z1>>, <<x1, y1, z1>>}
    IN  IF \E c \in corners : LUTIndex(lut, c[1], c[2], c[3], size) < 0
        THEN [ok |-> FALSE, color |-> [r |-> 0, g |-> 0, b |-> 0]]
        ELSE LET c000 == getLUTColor(lut, x0, y0, z0, size)
                 c100 == getLUTColor(lut, x1, y0, z0, size)
                 c010 == getLUTColor(lut, x0, y1, z0, size)
                 c110 == getLUTColor(lut, x1, y1, z0, size)
                 c001 == getLUTColor(lut, x0, y0, z1, size)
                 c101 == getLUTColor(lut, x1, y0, z1, size)
                 c011 == getLUTColor(lut, x0, y1, z1, size)
                 c111 == getLUTColor(lut, x1, y1, z1, size)
                 c00  == mixColor(c000, c100, dx)
                 c01  == mixColor(c001, c101, dx)
                 c10  == mixColor(c010, c110, dx)
                 c11  == mixColor(c011, c111, dx)
                 c0   == mixColor(c00, c10, dy)
                 c1   == mixColor(c01, c11, dy)
             IN  [ok |-> TRUE, color |-> mixColor(c0, c1, dz)]

\* (mutant) the loop also writes alpha, as opaque
LUTPixelOpaque(p, lutColor, strength) ==
    [r |-> Uint8ClampedStore(mix(1000 * p.r, lutColor.r * 255, strength)),
     g |-> Uint8ClampedStore(mix(1000 * p.g, lutColor.g * 255, strength)),
     b |-> Uint8ClampedStore(mix(1000 * p.b, lutColor.b * 255, strength)),
     a |-> 255]

\* one pixel of applyLUTTransformation's loop: R, G, B blended, alpha not written
LUTPixel(p, lutColor, strength) ==
    [r |-> Uint8ClampedStore(mix(1000 * p.r, lutColor.r * 255, strength)),
     g |-> Uint8ClampedStore(mix(1000 * p.g, lutColor.g * 255, strength)),
     b |-> Uint8ClampedStore(mix(1000 * p.b, lutColor.b * 255, strength)),
     a |-> p.a]

LUTSample(lut, p) ==
    sampleLUT3D(lut, QuotZ(1000 * p.r, 255), QuotZ(1000 * p.g, 255),
                QuotZ(1000 * p.b, 255), lut.size)

\* applyLUTTransformation: a new ImageData, or [ok |-> FALSE] when sampling throws
applyLUTTransformation(imageData, lut, strength) ==
    IF \E x \in 1..Len(imageData.data) : ~LUTSample(lut, imageData.data[x]).ok
    THEN [ok |-> FALSE, imageData |-> imageData]
    ELSE [ok |-> TRUE,
          imageData |-> [width |-> imageData.width,
                         data  |-> [x \in 1..Len(imageData.data) |->
                                       LUTPixel(imageData.data[x],
                                                LUTSample(lut, imageData.data[x]).color,
                                                strength)]]]

\* The LUT identifiers of the model: the sentinel "none", the upload slot
\* "custom", and one identifier the manifest or the folder scan can discover.
DiscoverableLuts == {"Fuji_Provia_100F"}

LutIds == {"custom"} \cup DiscoverableLuts

NoLut == [size |-> 0, data |-> <<>>, title |-> ""]

\* a cache entry: absent, or present with data null (loaded = FALSE) or a table
AbsentEntry == [present |-> FALSE, loaded |-> FALSE, data |-> NoLut]

UnloadedEntry == [present |-> TRUE, loaded |-> FALSE, data |-> NoLut]

LoadedEntry(lut) == [present |-> TRUE, loaded |-> TRUE, data |-> lut]

\* loadLUTManifest / scanLUTsFolder: every discovered id is set to an entry
\* with data null
InitializeCache(cache, discovered) ==
    [id \in LutIds |-> IF id \in discovered THEN UnloadedEntry ELSE cache[id]]

\* (mutant) an initialize() that does not look at initPromise
initializeEveryCaller(initialized, starts) ==
    IF initialized THEN "return" ELSE "start"

\* initialize(): what the call does, given isInitialized and how many times
\* _initializeInternal has been called so far
initialize(initialized, starts) ==
    IF initialized THEN "return" ELSE IF starts > 0 THEN "await" ELSE "start"

\* the number of _initializeInternal calls once a caller has gone through
\* `if (!this.isInitialized) await this.initialize()`
StartsAfterCaller(initialized, starts) ==
    IF ~initialized /\ initialize(initialized, starts) = "start"
    THEN starts + 1 ELSE starts

\* loadExternalLUT(lutName) once its fetch has settled with `fetch`:
\* the cache afterwards and the table returned, ok = FALSE when it throws
loadExternalLUT(cache, lutName, fetch) ==
    LET parsed == parseCUBEFile(fetch.content)
    IN  IF fetch.ok /\ parsed.ok
        THEN [ok |-> TRUE, lut |-> parsed.lut,
              cache |-> [cache EXCEPT ![lutName] = LoadedEntry(parsed.lut)]]
        ELSE [ok |-> FALSE, lut |-> NoLut,
              cache |-> [cache EXCEPT ![lutName] = AbsentEntry]]

\* (mutant) an identifier without a cache entry is fetched like an unloaded one
LookupLUTEager(cache, lutName, strength) ==
    IF lutName = "none" \/ strength = 0 THEN "return"
    ELSE IF lutName \notin LutIds THEN "return"
    ELSE IF ~cache[lutName].loaded THEN "load"
    ELSE "transform"

\* applyLUT up to its first suspension: what it does next
\*   "return"    one of the early returns of imageData itself
\*   "load"      the entry has no data: await loadExternalLUT
\*   "transform" the entry has a table: applyLUTTransformation
LookupLUT(cache, lutName, strength) ==
    IF lutName = "none" \/ strength = 0 THEN "return"
    ELSE IF lutName \notin LutIds \/ ~cache[lutName].present THEN "return"
    ELSE IF ~cache[lutName].loaded THEN "load"
    ELSE "transform"

\* the value applyLUT resolves with given the table to use: the new ImageData
\* (same = FALSE), or a rejection (ok = FALSE)
TransformResult(imageData, lut, strength) ==
    LET Resolved(t) == [ok |-> t.ok, same |-> FALSE, imageData |-> t.imageData,
                        outcome |-> IF t.ok THEN "applied" ELSE "threw"]
    IN  CHOOSE r \in {Resolved(t) :
                         t \in {applyLUTTransformation(imageData, lut, strength)}} : TRUE

\* an early return: the argument itself (same = TRUE)
ReturnInput(imageData, outcome) ==
    [ok |-> TRUE, same |-> TRUE, imageData |-> imageData, outcome |-> outcome]

\* applyLUT(imageData, lutName, strength) run to completion with the fetch, if
\* it makes one, settling with `fetch`: the cache afterwards and the result
applyLUT(cache, imageData, lutName, strength, fetch) ==
    LET todo == LookupLUT(cache, lutName, strength)
    IN  CASE todo = "return" ->
                [cache |-> cache,
                 result |-> ReturnInput(imageData,
                               IF lutName = "none" \/ strength = 0
                               THEN "noop" ELSE "missing")]
          [] todo = "transform" ->
                [cache |-> cache,
                 result |-> TransformResult(imageData, cache[lutName].data, strength)]
          [] todo = "load" ->
                LET loaded == loadExternalLUT(cache, lutName, fetch)
                IN  [cache |-> loaded.cache,
                     result |-> IF loaded.ok
                                THEN TransformResult(imageData, loaded.lut, strength)
                                ELSE ReturnInput(imageData, "loadFailed")]

-----------------------------------------------------------------------------
(* Canvas heap and the grain stage                                         *)

GrainCanvas == 1

\* the canvas a grain call draws on and resolves with: this.canvas
ResultCanvas(heap) == GrainCanvas

\* canvas.width = w; drawImage(image); getImageData: the image's samples
DrawAndRead(image) == image.data

\* the heap after putImageData on canvas c (allocating c when it is new)
PutCanvas(heap, c, bitmap) ==
    IF c \in 1..Len(heap) THEN [heap EXCEPT ![c] = bitmap] ELSE Append(heap, bitmap)

NoGrain == [path |-> "none", in |-> <<>>, out |-> <<>>, vals |-> <<>>, image |-> NoBitmap]

NoFetch == [ok |-> FALSE, content |-> <<>>]

\* a call of applyLUT: its arguments, the cache entry it found once the
\* processor was initialised, how its fetch settled, and its result
NoLutCall == [name |-> "none", strength |-> 0, in |-> NoBitmap, entry |-> AbsentEntry,
              fetch |-> NoFetch, result |-> ReturnInput(NoBitmap, "never")]

\* keep the last two results
Remember(rs, r) == IF Len(rs) < 2 THEN Append(rs, r) ELSE <<rs[2], r>>

\* GrainProcessor.applyGrain / applyGrainOptimized on `image`, the loop using
\* the grain values `vals`: the heap afterwards, the pass and the canvas resolved
GrainStage(heap, path, image, vals) ==
    LET data == DrawAndRead(image)
        out  == GrainPass(data, vals)
        c    == ResultCanvas(heap)
    IN  [heap   |-> PutCanvas(heap, c, [width |-> image.width, data |-> out]),
         grain  |-> [path |-> path, in |-> data, out |-> out, vals |-> vals,
                     image |-> image],
         canvas |-> c,
         output |-> [width |-> image.width, data |-> out]]

GrainCall(path, image, vals) ==
    LET g == GrainStage(canvases, path, image, vals)
    IN  /\ canvases' = g.heap
        /\ lastGrain' = g.grain
        /\ results' = Remember(results, [canvas |-> g.canvas, snapshot |-> g.output])

\* an image element whose naturalWidth or naturalHeight is 0
InvalidImage(image) == image.width <= 0

\* GrainProcessor.applyGrain / applyGrainOptimized on an image without pixels:
\* canvas.width = 0 empties the shared canvas, drawImage draws nothing, and
\* getImageData(0, 0, 0, 0) throws, which rejects the promise of the call
GrainReject(heap, path, image) ==
    [heap  |-> PutCanvas(heap, ResultCanvas(heap), [width |-> image.width, data |-> <<>>]),
     grain |-> [path |-> "rejected", in |-> <<>>, out |-> <<>>, vals |-> <<>>,
                image |-> image]]

-----------------------------------------------------------------------------
(* Inputs                                                                  *)

ChannelSamples == {0, 1, 128, 254, 255}

AlphaSamples == {0, 255}

ProcPixels ==
    {Pixel(r, g, b, a) : r \in ChannelSamples, g \in ChannelSamples,
                         b \in ChannelSamples, a \in AlphaSamples}

ProcImages ==
    {Bitmap(<<p>>) : p \in ProcPixels}
        \cup {Bitmap(<<Pixel(128, 128, 128, 255), Pixel(250, 100, 3, 128)>>)}

\* image elements that never loaded: naturalWidth = naturalHeight = 0
BrokenImages == {Bitmap(<<>>)}

\* Math.random() draws (milli) of one pixel of the fast path
DrawTriples == {<<0, 0, 0>>, <<500, 500, 500>>, <<850, 850, 850>>, <<999, 0, 500>>}

IsoChoices == {"auto", "3200"}

StrengthChoices == {700, 1000000}

GrainSizeChoices == {1000}

LutChoices == {"none"} \cup LutIds

LutStrengthChoices == {0, 500, 1000}

GrainSettings ==
    [iso : IsoChoices, strength : StrengthChoices, grainSize : GrainSizeChoices]

\* .cube payloads
Row(r, g, b) == Line("tokens", 0, <<r, g, b>>)

InvertRows ==
    <<Row(1000, 1000, 1000), Row(0, 1000, 1000), Row(1000, 0, 1000), Row(0, 0, 1000),
      Row(1000, 1000, 0), Row(0, 1000, 0), Row(1000, 0, 0), Row(0, 0, 0)>>

InvertCube ==
    <<Line("comment", 0, <<>>), Line("title", 0, <<>>), Line("size", 2, <<>>)>> \o InvertRows

EmptyCube == <<Line("comment", 0, <<>>), Line("blank", 0, <<>>), Line("tokens", 0, <<500, 500>>)>>

ZeroSizeCube == <<Line("size", 0, <<>>), Row(500, 500, 500)>>

Payloads == {InvertCube, EmptyCube, ZeroSizeCube}

FetchOutcomes ==
    {NoFetch} \cup {[ok |-> TRUE, content |-> c] : c \in Payloads}

-----------------------------------------------------------------------------------------------------------------------------------------------------
(* The processors called directly by a sequential caller                   *)

\* await grainProcessor.applyGrain(image, settings): the coherent path
ProcApplyGrain ==
    /\ GrainCall("natural", originalImage,
                 NaturalGrainValues(DrawAndRead(originalImage), currentSettings))
    /\ UNCHANGED <<calls, lastLut, lutCache, isInitialized, initStarts, originalImage, currentSettings, appVars>>

\* await grainProcessor.applyGrainOptimized(image, settings): the fast path
ProcApplyGrainOptimized ==
    /\ \E draws \in [1..originalImage.width -> DrawTriples] :
          GrainCall("optimized", originalImage,
                    OptimizedGrainValues(DrawAndRead(originalImage), currentSettings, draws))
    /\ UNCHANGED <<calls, lastLut, lutCache, isInitialized, initStarts, originalImage, currentSettings, appVars>>

\* imageData = getImageData of the grain canvas; await lutProcessor.applyLUT(
\* imageData, lutName, strength); putImageData of the result
ProcApplyLUT ==
    /\ canvases[GrainCanvas].width > 0
    /\ \E lutName \in LutChoices, strength \in LutStrengthChoices,
          discovered \in IF isInitialized THEN {{}} ELSE SUBSET DiscoverableLuts :
          LET imageData == canvases[GrainCanvas]
              cache0    == IF isInitialized THEN lutCache
                           ELSE InitializeCache(lutCache, discovered)
              loads     == LookupLUT(cache0, lutName, strength) = "load"
          IN  \E fetch \in IF loads THEN FetchOutcomes ELSE {NoFetch} :
                 LET call == applyLUT(cache0, imageData, lutName, strength, fetch)
                 IN  /\ lutCache' = call.cache
                     /\ lastLut' = [name |-> lutName, strength |-> strength,
                                    in |-> imageData,
                                    entry |-> IF lutName \in LutIds THEN cache0[lutName]
                                              ELSE AbsentEntry,
                                    fetch |-> fetch, result |-> call.result]
                     /\ canvases' = IF call.result.ok
                                    THEN [canvases EXCEPT ![GrainCanvas] = call.result.imageData]
                                    ELSE canvases
    /\ isInitialized' = TRUE
    /\ initStarts' = StartsAfterCaller(isInitialized, initStarts)
    /\ UNCHANGED <<calls, lastGrain, results, originalImage, currentSettings, appVars>>

\* await lutProcessor.loadCustomLUT(file)
ProcLoadCustomLUT ==
    /\ \E content \in Payloads :
          LET parsed == parseCUBEFile(content)
          IN  /\ parsed.ok
              /\ lutCache' = [lutCache EXCEPT !["custom"] = LoadedEntry(parsed.lut)]
    /\ UNCHANGED <<calls, canvases, lastGrain, lastLut, results, isInitialized, initStarts,
                   originalImage, currentSettings, appVars>>

\* await grainProcessor.applyGrain(broken, settings) or applyGrainOptimized(
\* broken, settings): neither function looks at the size it reads
ProcApplyGrainInvalid ==
    /\ \E image \in BrokenImages, path \in {"natural", "optimized"} :
          /\ InvalidImage(image)
          /\ LET g == GrainReject(canvases, path, image)
             IN  /\ canvases' = g.heap
                 /\ lastGrain' = g.grain
    /\ UNCHANGED <<calls, results, lastLut, lutCache, isInitialized, initStarts, originalImage,
                   currentSettings, appVars>>

ProcStart ==
    /\ canvases = <<NoBitmap>>
    /\ lastGrain = NoGrain
    /\ lastLut = NoLutCall
    /\ results = <<>>
    /\ lutCache = [id \in LutIds |-> AbsentEntry]
    /\ isInitialized = FALSE
    /\ processedCanvas = 0
    /\ controlsEnabled = FALSE
    /\ downloadEnabled = FALSE
    /\ loading = FALSE
    /\ runs = <<>>
    /\ fileLoad = "idle"
    /\ completed = <<>>
    /\ budget = [apply |-> 0, files |-> 0, edits |-> 0]
    /\ availableLUTs = {}
    /\ calls = <<>>
    /\ initStarts = 0

\* the grain processor alone, on a wide range of images and settings
GrainInit ==
    /\ ProcStart
    /\ originalImage \in ProcImages
    /\ currentSettings \in GrainSettings

GrainNext ==
    \/ ProcApplyGrain
    \/ ProcApplyGrainOptimized
    \/ ProcApplyGrainInvalid

GrainSpec == GrainInit /\ [][GrainNext]_vars

\* Math.random() draws of the runs that also go through the LUT stage
FewDraws == {<<0, 0, 0>>, <<999, 0, 500>>}

\* the fast path again, with few draws
ProcApplyGrainFast ==
    /\ \E draws \in [1..originalImage.width -> FewDraws] :
          GrainCall("optimized", originalImage,
                    OptimizedGrainValues(DrawAndRead(originalImage), currentSettings, draws))
    /\ UNCHANGED <<calls, lastLut, lutCache, isInitialized, initStarts, originalImage, currentSettings, appVars>>

\* both processors, on one image with a translucent pixel
LutImages == {Bitmap(<<Pixel(250, 100, 3, 128)>>)}

LutInit ==
    /\ ProcStart
    /\ originalImage \in LutImages
    /\ currentSettings \in {[iso |-> "800", strength |-> 700, grainSize |-> 1000]}

LutNext ==
    \/ ProcApplyGrain
    \/ ProcApplyGrainFast
    \/ ProcApplyLUT
    \/ ProcLoadCustomLUT

LutSpec == LutInit /\ [][LutNext]_vars

-----------------------------------------------------------------------------
(* The functions of the processors called one at a time                    *)

\* a table of edge length 3 whose 27 rows all differ
TwistCube3 ==
    <<Line("title", 0, <<>>), Line("size", 3, <<>>)>>
        \o [k \in 1..27 |->
               Row(1000 - 500 * ((k - 1) % 3), 500 * ((k - 1) \div 9),
                   500 * (((k - 1) \div 3) % 3))]

SampleTables == {parseCUBEFile(c).lut : c \in {InvertCube, TwistCube3}}

\* r, g and b of a query (milli)
QuerySamples == {0, 400, 1000}

\* fewer rows than the declared size cubed
ShortCube == <<Line("size", 2, <<>>), Row(0, 0, 0), Row(250, 500, 1000), Row(1000, 1000, 1000)>>

\* tables whose row count is not their declared size cubed
MismatchedTables == {parseCUBEFile(c).lut : c \in {ZeroSizeCube, ShortCube}}

\* the tables and queries sampled: every query on the well-formed tables, the
\* queries with g = b at an end of the range on the others
SampleInputs ==
    {<<lut, r, g, b>> : lut \in SampleTables, r \in QuerySamples,
                        g \in QuerySamples, b \in QuerySamples}
        \cup {<<lut, r, g, g>> : lut \in MismatchedTables, r \in QuerySamples,
                                 g \in {0, 1000}}

\* lutProcessor.sampleLUT3D(lut, r, g, b, lut.size)
CallSampleLUT3D ==
    /\ \E in \in SampleInputs :
          calls' = Remember(calls, [fn |-> "sampleLUT3D", args |-> in,
                                    result |-> sampleLUT3D(in[1], in[2], in[3], in[4],
                                                           in[1].size)])
    /\ UNCHANGED <<procVars, originalImage, currentSettings, appVars>>

\* a keyword line of three tokens, as in 'LUT_3D_INPUT_RANGE 0.0 1.0', and a
\* keyword line of four tokens, before two rows
KeywordCube ==
    <<Line("size", 2, <<>>), Line("tokens", 0, <<NaN, 0, 1000>>),
      Line("tokens", 0, <<NaN, 0, 0, 0>>), Row(0, 0, 0), Row(1500, -200, 1000)>>

\* no LUT_3D_SIZE line
NoSizeCube == <<Line("comment", 0, <<>>), Row(1000, 0, 0), Row(0, 1000, 0)>>

\* a header without rows
HeaderOnlyCube == <<Line("title", 0, <<>>), Line("size", 2, <<>>)>>

ParsePayloads ==
    {InvertCube, TwistCube3, EmptyCube, ZeroSizeCube, ShortCube, NoSizeCube,
     HeaderOnlyCube, KeywordCube, <<>>}

\* lutProcessor.parseCUBEFile(content)
CallParseCUBEFile ==
    /\ \E content \in ParsePayloads :
          calls' = Remember(calls, [fn |-> "parseCUBEFile", args |-> <<content>>,
                                    result |-> parseCUBEFile(content)])
    /\ UNCHANGED <<procVars, originalImage, currentSettings, appVars>>

\* image widths (the model's grids have one row)
SynthWidths == {1, 2, 3}

\* isoParams.size * settings.grainSize (milli)
SynthGrainSizes == {700, 1000, 1500}

\* grainProcessor._generateMonochromaticGrain(width, 1, grainSize)
CallGenerateMonochromaticGrain ==
    /\ \E width \in SynthWidths, grainSize \in SynthGrainSizes :
          calls' = Remember(calls, [fn |-> "_generateMonochromaticGrain",
                                    args |-> <<width, grainSize>>,
                                    result |-> _generateMonochromaticGrain(width, grainSize)])
    /\ UNCHANGED <<procVars, originalImage, currentSettings, appVars>>

\* luminance of a pixel (milli)
LuminanceSamples == {0, 250, 500, 750, 1000}

\* settings.strength * isoParams.intensity (milli): strength 0; strength 0.7
\* at ISO 100, 800 and 3200; strength 1000 at ISO 3200
BaseIntensities ==
    {MulM(s, _getIsoParameters(iso).intensity) :
        s \in {0, 700}, iso \in {"100", "800", "3200"}}
        \cup {MulM(1000000, _getIsoParameters("3200").intensity)}

\* grainProcessor._getAdaptiveStrength(luminance, baseIntensity)
CallGetAdaptiveStrength ==
    /\ \E luminance \in LuminanceSamples, baseIntensity \in BaseIntensities :
          calls' = Remember(calls, [fn |-> "_getAdaptiveStrength",
                                    args |-> <<luminance, baseIntensity>>,
                                    result |-> _getAdaptiveStrength(luminance,
                                                                    baseIntensity)])
    /\ UNCHANGED <<procVars, originalImage, currentSettings, appVars>>

\* values of settings.iso, as the property key they convert to
IsoInputs == IsoKeys \cup {"auto", "undefined", "6400", "50", "constructor", "toString"}

\* grainProcessor._getIsoParameters(iso)
CallGetIsoParameters ==
    /\ \E iso \in IsoInputs :
          calls' = Remember(calls, [fn |-> "_getIsoParameters", args |-> <<iso>>,
                                    result |-> _getIsoParameters(iso)])
    /\ UNCHANGED <<procVars, originalImage, currentSettings, appVars>>

\* ExifReader.getRecommendedIso; exifIso = 0 is a missing tag
getRecommendedIso(exifIso) ==
    IF exifIso = 0 THEN 800
    ELSE IF exifIso \in {100, 200, 400, 800, 1600, 3200} THEN exifIso
    ELSE IF exifIso = 6400 THEN 3200
    ELSE Min(3200, Max(100, ((exifIso + 50) \div 100) * 100))

\* the ISOSpeedRatings tag of a file, 0 when the tag or the EXIF data is absent
ExifIsoInputs == {0, 50, 100, 250, 500, 3200, 6400, 12800}

\* exifReader.getRecommendedIso(exifData)
CallGetRecommendedIso ==
    /\ \E exifIso \in ExifIsoInputs :
          calls' = Remember(calls, [fn |-> "getRecommendedIso", args |-> <<exifIso>>,
                                    result |-> getRecommendedIso(exifIso)])
    /\ UNCHANGED <<procVars, originalImage, currentSettings, appVars>>

FnInit ==
    /\ ProcStart
    /\ originalImage = NoBitmap
    /\ currentSettings = [iso |-> "800", strength |-> 700, grainSize |-> 1000]

FnNext ==
    \/ CallSampleLUT3D
    \/ CallParseCUBEFile
    \/ CallGenerateMonochromaticGrain
    \/ CallGetAdaptiveStrength
    \/ CallGetIsoParameters
    \/ CallGetRecommendedIso

FnSpec == FnInit /\ [][FnNext]_vars

-----------------------------------------------------------------------------
(* FujiGrainApp: the page and its events                                   *)

\* document.getElementById('processedCanvas')
DisplayCanvas == 2

MaxApply == 2

MaxFiles == 2

MaxEdits == 2

\* images stand for validated files; they differ in width
AppImages ==
    {Bitmap(<<Pixel(250, 100, 3, 128)>>),
     Bitmap(<<Pixel(128, 128, 128, 255), Pixel(0, 0, 1, 255)>>)}

\* the ISOSpeedRatings tag of a file, 0 when the file has no EXIF data
ExifIsoChoices == {0, 6400}

UploadPayloads == {InvertCube, EmptyCube}

AppFetchOutcomes ==
    {NoFetch} \cup {[ok |-> TRUE, content |-> c] : c \in {InvertCube, EmptyCube, ZeroSizeCube}}

\* the value of an option of #isoSelect for a number
IsoName(n) ==
    CASE n = 100 -> "100" [] n = 200 -> "200" [] n = 400 -> "400" [] n = 800 -> "800"
      [] n = 1600 -> "1600" [] n = 3200 -> "3200" [] OTHER -> "other"

\* the settings resetImage restores
ResetSettings ==
    [iso |-> "800", strength |-> 700, grainSize |-> 1000,
     selectedLUT |-> "none", lutStrength |-> 1000, applyLUT |-> TRUE]

\* the strength argument applyLUTToCanvas passes: lutStrength || 1.0
LutStrengthArg(settings) ==
    IF settings.lutStrength = 0 THEN 1000 ELSE settings.lutStrength

WantsLUTIgnoringSwitch(settings) ==
    settings.selectedLUT # "" /\ settings.selectedLUT # "none"

\* the condition under which applyGrain runs step 2
WantsLUT(settings) ==
    settings.applyLUT /\ settings.selectedLUT # "" /\ settings.selectedLUT # "none"

\* ctx.putImageData(imageData, 0, 0) on a canvas
putImageData(bitmap, imageData) ==
    [width |-> bitmap.width,
     data  |-> [x \in 1..bitmap.width |->
                   IF x <= imageData.width THEN imageData.data[x] ELSE bitmap.data[x]]]

\* a sequence without its i-th element
RemoveAt(s, i) == SubSeq(s, 1, i - 1) \o SubSeq(s, i + 1, Len(s))

\* a continuation that runs before any further event is handled
Resuming == \E i \in 1..Len(runs) : runs[i].pc = "resume"

\* enableControls(enabled), given the value of this.processedCanvas
enableControls(enabled, processed) ==
    /\ controlsEnabled' = enabled
    /\ downloadEnabled' = (enabled /\ processed # 0)

\* new FujiGrainApp(): initializeSettings reads the grain controls of the page
\* (ISO on auto); the controls start enabled, which is why applyGrain begins
\* by testing for an image; loadAvailableLUTs has called getAvailableLUTs, the
\* first caller of initialize
Init ==
    /\ canvases = <<NoBitmap, NoBitmap>>
    /\ lastGrain = NoGrain
    /\ lastLut = NoLutCall
    /\ results = <<>>
    /\ lutCache = [id \in LutIds |-> AbsentEntry]
    /\ isInitialized = FALSE
    /\ originalImage = NoBitmap
    /\ currentSettings = [ResetSettings EXCEPT !.iso = "auto"]
    /\ processedCanvas = 0
    /\ controlsEnabled = TRUE
    /\ downloadEnabled = FALSE
    /\ loading = FALSE
    /\ runs = <<>>
    /\ fileLoad = "idle"
    /\ completed = <<>>
    /\ budget = [apply |-> 0, files |-> 0, edits |-> 0]
    /\ availableLUTs = {}
    /\ calls = <<>>
    /\ initStarts = StartsAfterCaller(FALSE, 0)

\* loadAvailableLUTs: the initialisation started by the constructor settles,
\* the dropdown is rebuilt, and the applyLUT calls awaiting it resume
InitializeDone ==
    /\ ~isInitialized
    /\ ~Resuming
    /\ \E discovered \in SUBSET DiscoverableLuts :
          /\ lutCache' = InitializeCache(lutCache, discovered)
          /\ availableLUTs' = {id \in LutIds : lutCache'[id].present}
    /\ isInitialized' = TRUE
    /\ runs' = [i \in 1..Len(runs) |->
                   IF runs[i].pc = "init" THEN [runs[i] EXCEPT !.pc = "resume"]
                   ELSE runs[i]]
    /\ UNCHANGED <<calls, initStarts, canvases, lastGrain, lastLut, results, originalImage,
                   currentSettings, processedCanvas, controlsEnabled, downloadEnabled,
                   loading, fileLoad, completed, budget>>

\* handleFileSelect up to its first await.  #imageInput is not in the list of
\* enableControls and is never disabled, so a file can be chosen at any time.
FileSelect ==
    /\ ~Resuming
    /\ fileLoad = "idle"
    /\ budget.files < MaxFiles
    /\ budget' = [budget EXCEPT !.files = @ + 1]
    /\ loading' = TRUE
    /\ enableControls(FALSE, processedCanvas)
    /\ fileLoad' = "validating"
    /\ UNCHANGED <<calls, procVars, originalImage, currentSettings, processedCanvas,
                   runs, completed, availableLUTs>>

\* validateFile rejects: showError, resetFileInput, showLoading(false)
FileRejected ==
    /\ ~Resuming
    /\ fileLoad = "validating"
    /\ enableControls(FALSE, processedCanvas)
    /\ loading' = FALSE
    /\ fileLoad' = "idle"
    /\ UNCHANGED <<calls, procVars, originalImage, currentSettings, processedCanvas,
                   runs, completed, budget, availableLUTs>>

\* loadImage: img.onload sets originalImage and draws it on #processedCanvas
FileImageLoaded ==
    /\ ~Resuming
    /\ fileLoad = "validating"
    /\ \E img \in AppImages :
          /\ originalImage' = img
          /\ canvases' = [canvases EXCEPT ![DisplayCanvas] = img]
    /\ fileLoad' = "exif"
    /\ UNCHANGED <<calls, lastGrain, lastLut, results, lutCache, isInitialized, initStarts, currentSettings,
                   processedCanvas, controlsEnabled, downloadEnabled, loading,
                   runs, completed, budget, availableLUTs>>

\* getExifData settles: autoConfigureIso, enableControls(true), showLoading(false)
FileSelectDone ==
    /\ ~Resuming
    /\ fileLoad = "exif"
    /\ \E exifIso \in ExifIsoChoices :
          currentSettings' =
              IF exifIso # 0 /\ currentSettings.iso = "auto"
              THEN [currentSettings EXCEPT !.iso = IsoName(getRecommendedIso(exifIso))]
              ELSE currentSettings
    /\ enableControls(TRUE, processedCanvas)
    /\ loading' = FALSE
    /\ fileLoad' = "idle"
    /\ UNCHANGED <<calls, procVars, originalImage, processedCanvas, runs, completed,
                   budget, availableLUTs>>

\* the change and input handlers of the setting controls: updateSetting(key, value)
UpdateSetting ==
    /\ ~Resuming
    /\ controlsEnabled
    /\ budget.edits < MaxEdits
    /\ budget' = [budget EXCEPT !.edits = @ + 1]
    /\ \E change \in
            {<<"selectedLUT", v>> : v \in {"none", "custom"} \cup availableLUTs}
              \cup {<<"lutStrength", v>> : v \in {0, 1000}}
              \cup {<<"applyLUT", v>> : v \in BOOLEAN} :
          /\ currentSettings[change[1]] # change[2]
          /\ currentSettings' = [currentSettings EXCEPT ![change[1]] = change[2]]
    /\ UNCHANGED <<calls, procVars, originalImage, processedCanvas, controlsEnabled,
                   downloadEnabled, loading, runs, fileLoad, completed,
                   availableLUTs>>

\* handleCustomLUTUpload(file); #customLutUpload is shown while the selection
\* is "custom"
CustomLUTUpload ==
    /\ ~Resuming
    /\ controlsEnabled
    /\ currentSettings.selectedLUT = "custom"
    /\ \E content \in UploadPayloads :
          LET parsed == parseCUBEFile(content)
          IN  lutCache' = IF parsed.ok
                          THEN [lutCache EXCEPT !["custom"] = LoadedEntry(parsed.lut)]
                          ELSE lutCache
    /\ loading' = FALSE
    /\ UNCHANGED <<calls, canvases, lastGrain, lastLut, results, isInitialized, initStarts, originalImage,
                   currentSettings, processedCanvas, controlsEnabled, downloadEnabled,
                   runs, fileLoad, completed, budget, availableLUTs>>

\* (mutant) a reset that also forgets the image
ResetImageForgetsImage ==
    /\ ~Resuming
    /\ controlsEnabled
    /\ originalImage # NoBitmap
    /\ budget.edits < MaxEdits
    /\ budget' = [budget EXCEPT !.edits = @ + 1]
    /\ canvases' = [canvases EXCEPT ![DisplayCanvas] = NoBitmap]
    /\ processedCanvas' = 0
    /\ currentSettings' = ResetSettings
    /\ originalImage' = NoBitmap
    /\ UNCHANGED <<calls, lastGrain, lastLut, results, lutCache, isInitialized, initStarts,
                   controlsEnabled, downloadEnabled, loading, runs, fileLoad,
                   completed, availableLUTs>>

\* resetImage, from #resetBtn
ResetImage ==
    /\ ~Resuming
    /\ controlsEnabled
    /\ originalImage # NoBitmap
    /\ budget.edits < MaxEdits
    /\ budget' = [budget EXCEPT !.edits = @ + 1]
    /\ canvases' = [canvases EXCEPT ![DisplayCanvas] = originalImage]
    /\ processedCanvas' = 0
    /\ currentSettings' = ResetSettings
    /\ UNCHANGED <<calls, lastGrain, lastLut, results, lutCache, isInitialized, initStarts, originalImage,
                   controlsEnabled, downloadEnabled, loading, runs, fileLoad,
                   completed, availableLUTs>>

\* downloadResult, from #downloadBtn
DownloadResult ==
    /\ ~Resuming
    /\ downloadEnabled
    /\ UNCHANGED <<calls, procVars, originalImage, currentSettings, processedCanvas,
                   controlsEnabled, downloadEnabled, loading, runs, fileLoad, completed,
                   budget, availableLUTs>>

\* an applyGrain invocation that has not reached its grain stage yet
NewRun ==
    [pc |-> "timer", canvas |-> 0, imageData |-> NoBitmap, image |-> NoBitmap,
     settings |-> ResetSettings, lutName |-> "none", strength |-> 0,
     entry |-> AbsentEntry]

\* applyGrain up to its first await, from #applyGrainBtn
ApplyGrainClick ==
    /\ ~Resuming
    /\ controlsEnabled
    /\ IF originalImage = NoBitmap
       THEN UNCHANGED <<runs, loading, controlsEnabled, downloadEnabled, budget>>
       ELSE /\ budget.apply < MaxApply
            /\ budget' = [budget EXCEPT !.apply = @ + 1]
            /\ loading' = TRUE
            /\ enableControls(FALSE, processedCanvas)
            /\ runs' = Append(runs, NewRun)
    /\ UNCHANGED <<calls, procVars, originalImage, currentSettings, processedCanvas, fileLoad,
                   completed, availableLUTs>>

\* step 3 of applyGrain and its finally block, for the run at position i:
\* `heap` is the canvases once step 2 is over, `lut` what became of step 2,
\* `table` the table step 2 used and `toasts` the toasts shown so far
Publish(i, run, heap, lut, table, toasts) ==
    /\ canvases' = [heap EXCEPT ![DisplayCanvas] = heap[run.canvas]]
    /\ processedCanvas' = run.canvas
    /\ loading' = FALSE
    /\ enableControls(TRUE, run.canvas)
    /\ runs' = RemoveAt(runs, i)
    /\ completed' = Remember(completed,
                        [image |-> run.image, settings |-> run.settings,
                         grainOnly |-> run.imageData, published |-> heap[run.canvas],
                         lut |-> lut, strength |-> run.strength, table |-> table,
                         toasts |-> Append(toasts, "success:applied")])

\* the rest of applyLUTToCanvas once applyLUT has settled with `result`, then
\* the rest of applyGrain
AfterLUT(i, run, heap, result, table, fetch) ==
    /\ lastLut' = [name |-> run.lutName, strength |-> run.strength, in |-> run.imageData,
                   entry |-> run.entry, fetch |-> fetch, result |-> result]
    /\ IF result.ok
       THEN Publish(i, run,
                    [heap EXCEPT ![run.canvas] = putImageData(heap[run.canvas],
                                                              result.imageData)],
                    result.outcome, table, <<>>)
       ELSE Publish(i, run, heap, result.outcome, table, <<"error:lut">>)

\* applyLUT from its early returns on, the LUTProcessor being initialised
LutStep(i, run, heap) ==
    LET todo  == LookupLUT(lutCache, run.lutName, run.strength)
        entry == IF run.lutName \in LutIds THEN lutCache[run.lutName] ELSE AbsentEntry
        run1  == [run EXCEPT !.entry = entry]
    IN  IF todo = "load"
        THEN /\ runs' = [runs EXCEPT ![i] = [run1 EXCEPT !.pc = "fetch"]]
             /\ canvases' = heap
             /\ UNCHANGED <<lastLut, lutCache, processedCanvas, controlsEnabled,
                            downloadEnabled, loading, completed>>
        ELSE /\ \E result \in {applyLUT(lutCache, run.imageData, run.lutName,
                                         run.strength, NoFetch).result} :
                    AfterLUT(i, run1, heap, result,
                             IF todo = "transform" THEN entry.data ELSE NoLut, NoFetch)
             /\ UNCHANGED lutCache

\* (mutant) the catch block of applyGrain without the finally block
ProcessingFailedNoFinally(i, heap) ==
    /\ canvases' = [heap EXCEPT ![DisplayCanvas] = originalImage]
    /\ processedCanvas' = 0
    /\ currentSettings' = ResetSettings
    /\ UNCHANGED <<loading, controlsEnabled, downloadEnabled>>
    /\ runs' = RemoveAt(runs, i)

\* the catch block of applyGrain: handleProcessingError, then the finally block
ProcessingFailed(i, heap) ==
    /\ canvases' = [heap EXCEPT ![DisplayCanvas] = originalImage]
    /\ processedCanvas' = 0
    /\ currentSettings' = ResetSettings
    /\ loading' = FALSE
    /\ enableControls(TRUE, 0)
    /\ runs' = RemoveAt(runs, i)

\* the timer of a run fires: step 1 on the image and the settings of this
\* moment, then step 2 up to its first suspension, or all the way to the end.
\* The grain call throws when the canvas cannot be read back.
RunGrain(i) ==
    /\ ~Resuming
    /\ runs[i].pc = "timer"
    /\ \/ /\ ProcessingFailed(i, PutCanvas(canvases, GrainCanvas, originalImage))
          /\ UNCHANGED <<lastGrain, lastLut, results, lutCache, completed, initStarts>>
       \/ \E draws \in {[x \in 1..originalImage.width |-> d] : d \in FewDraws} :
             LET g   == GrainStage(canvases, "optimized", originalImage,
                                   OptimizedGrainValues(DrawAndRead(originalImage),
                                                        currentSettings, draws))
                 run == [runs[i] EXCEPT !.canvas = g.canvas, !.imageData = g.output,
                                        !.image = originalImage,
                                        !.settings = currentSettings,
                                        !.lutName = currentSettings.selectedLUT,
                                        !.strength = LutStrengthArg(currentSettings)]
             IN  /\ lastGrain' = g.grain
                 /\ results' = Remember(results, [canvas |-> g.canvas,
                                                  snapshot |-> g.output])
                 /\ UNCHANGED currentSettings
                 /\ initStarts' = IF WantsLUT(currentSettings)
                                  THEN StartsAfterCaller(isInitialized, initStarts)
                                  ELSE initStarts
                 /\ IF ~WantsLUT(currentSettings)
                    THEN /\ Publish(i, run, g.heap, "skipped", NoLut, <<>>)
                         /\ UNCHANGED <<lastLut, lutCache>>
                    ELSE IF ~isInitialized
                    THEN /\ runs' = [runs EXCEPT ![i] = [run EXCEPT !.pc = "init"]]
                         /\ canvases' = g.heap
                         /\ UNCHANGED <<lastLut, lutCache, processedCanvas,
                                        controlsEnabled, downloadEnabled, loading,
                                        completed>>
                    ELSE LutStep(i, run, g.heap)
    /\ UNCHANGED <<calls, isInitialized, originalImage, fileLoad, budget, availableLUTs>>

\* an applyLUT call that awaited the initialisation goes on, the earliest first
RunResume(i) ==
    /\ runs[i].pc = "resume"
    /\ \A j \in 1..(i - 1) : runs[j].pc # "resume"
    /\ LutStep(i, runs[i], canvases)
    /\ UNCHANGED <<calls, lastGrain, results, isInitialized, initStarts, originalImage, currentSettings,
                   fileLoad, budget, availableLUTs>>

\* the fetch of loadExternalLUT settles
FetchDone(i) ==
    /\ ~Resuming
    /\ runs[i].pc = "fetch"
    /\ \E fetch \in AppFetchOutcomes :
          LET loaded == loadExternalLUT(lutCache, runs[i].lutName, fetch)
          IN  /\ lutCache' = loaded.cache
              /\ AfterLUT(i, runs[i], canvases,
                          IF loaded.ok
                          THEN TransformResult(runs[i].imageData, loaded.lut,
                                               runs[i].strength)
                          ELSE ReturnInput(runs[i].imageData, "loadFailed"),
                          loaded.lut, fetch)
    /\ UNCHANGED <<calls, lastGrain, results, isInitialized, initStarts, originalImage, currentSettings,
                   fileLoad, budget, availableLUTs>>

Next ==
    \/ InitializeDone
    \/ FileSelect
    \/ FileRejected
    \/ FileImageLoaded
    \/ FileSelectDone
    \/ UpdateSetting
    \/ CustomLUTUpload
    \/ ResetImage
    \/ DownloadResult
    \/ ApplyGrainClick
    \/ \E i \in 1..Len(runs) : RunGrain(i)
    \/ \E i \in 1..Len(runs) : RunResume(i)
    \/ \E i \in 1..Len(runs) : FetchDone(i)

Spec == Init /\ [][Next]_vars

\* every pending timer, fetch and continuation of a run eventually settles
RunsSettle ==
    /\ WF_vars(InitializeDone)
    /\ WF_vars(\E i \in 1..Len(runs) : RunGrain(i))
    /\ WF_vars(\E i \in 1..Len(runs) : RunResume(i))
    /\ WF_vars(\E i \in 1..Len(runs) : FetchDone(i))

\* new FujiGrainApp() again, with a single setting change or reset to come
FairInit ==
    /\ canvases = <<NoBitmap, NoBitmap>>
    /\ lastGrain = NoGrain
    /\ lastLut = NoLutCall
    /\ results = <<>>
    /\ lutCache = [id \in LutIds |-> AbsentEntry]
    /\ isInitialized = FALSE
    /\ originalImage = NoBitmap
    /\ currentSettings = [ResetSettings EXCEPT !.iso = "auto"]
    /\ processedCanvas = 0
    /\ controlsEnabled = TRUE
    /\ downloadEnabled = FALSE
    /\ loading = FALSE
    /\ runs = <<>>
    /\ fileLoad = "idle"
    /\ completed = <<>>
    /\ budget = [apply |-> 0, files |-> 0, edits |-> MaxEdits - 1]
    /\ availableLUTs = {}
    /\ calls = <<>>
    /\ initStarts = StartsAfterCaller(FALSE, 0)

FairSpec == FairInit /\ [][Next]_vars /\ RunsSettle

-----------------------------------------------------------------------------
(* Properties of the grain stage                                           *)

GrainRan == lastGrain.path \in {"natural", "optimized"}

GrainPixels == 1..Len(lastGrain.in)

\* the exact sum data[i] + grainValue leaves [0, 255]
Saturates(sample, grainValue) ==
    1000 * sample + grainValue < 0 \/ 1000 * sample + grainValue > 255000

NoChannelSaturates(p, grainValue) ==
    ~Saturates(p.r, grainValue) /\ ~Saturates(p.g, grainValue) /\ ~Saturates(p.b, grainValue)

\* the sum falls half way between two integers
RoundingTie(grainValue) == grainValue % 1000 = 500

DeltaR(x) == lastGrain.out[x].r - lastGrain.in[x].r

DeltaG(x) == lastGrain.out[x].g - lastGrain.in[x].g

DeltaB(x) == lastGrain.out[x].b - lastGrain.in[x].b

\* C1 as stated: after the grain stage the stored change is the same on R, G
\* and B, for every pixel, every input sample and every grain value.
C1_SameStoredDelta ==
    \A x \in GrainPixels : DeltaR(x) = DeltaG(x) /\ DeltaG(x) = DeltaB(x)

\* C1 amended: the stored changes of R, G and B are equal whenever no channel
\* saturates and the sum is not a rounding tie of the 8-bit store; on a tie
\* they differ by at most 1; only a saturating channel can differ by more.
C1_SameDeltaUnlessSaturatedOrTie ==
    \A x \in GrainPixels :
        NoChannelSaturates(lastGrain.in[x], lastGrain.vals[x]) =>
            /\ Abs(DeltaR(x) - DeltaG(x)) <= 1
            /\ Abs(DeltaG(x) - DeltaB(x)) <= 1
            /\ Abs(DeltaR(x) - DeltaB(x)) <= 1
            /\ ~RoundingTie(lastGrain.vals[x]) =>
                   DeltaR(x) = DeltaG(x) /\ DeltaG(x) = DeltaB(x)

\* a pixel with distinct samples got a non-zero change, the same on its three
\* channels, none of them saturating
C1_Witness ==
    \E x \in GrainPixels :
        /\ NoChannelSaturates(lastGrain.in[x], lastGrain.vals[x])
        /\ lastGrain.in[x].r # lastGrain.in[x].g
        /\ DeltaR(x) # 0
        /\ DeltaR(x) = DeltaG(x) /\ DeltaG(x) = DeltaB(x)

\* C3: every R, G and B sample written by the grain stage lies in [0,255],
\* and a sum beyond an end of the range is stored as that end (no wraparound).
C3_GrainSamplesSaturate ==
    \A x \in GrainPixels :
        LET p  == lastGrain.in[x]
            q  == lastGrain.out[x]
            gv == lastGrain.vals[x]
            Sat(before, after) ==
                /\ after \in 0..255
                /\ 1000 * before + gv >= 255000 => after = 255
                /\ 1000 * before + gv <= 0 => after = 0
        IN  Sat(p.r, q.r) /\ Sat(p.g, q.g) /\ Sat(p.b, q.b)

\* strength = 1000 pushed a sum far beyond 255 and the sample was stored as 255
C3_Witness ==
    /\ currentSettings.strength = 1000000
    /\ \E x \in GrainPixels :
          /\ 1000 * lastGrain.in[x].r + lastGrain.vals[x] > 2 * 255000
          /\ lastGrain.in[x].r < 255
          /\ lastGrain.out[x].r = 255

\* C5 as stated: the buffer handed to the grain pass keeps its original
\* samples (the result being in a separately allocated buffer).
C5_InputBufferUnchanged == GrainRan => lastGrain.out = lastGrain.in

\* C5 amended: the grain pass writes its result into the ImageData buffer it
\* is handed (a pixel whose samples are strictly inside the range and whose
\* grain value is at least 1 in size is changed in that buffer), that buffer
\* is what is put on the canvas, and the image element passed to the call
\* keeps its samples.
C5_InPlaceOnCopyOfImage ==
    GrainRan =>
        /\ lastGrain.in = lastGrain.image.data
        /\ originalImage = lastGrain.image
        /\ canvases[results[Len(results)].canvas].data = lastGrain.out
        /\ \A x \in GrainPixels :
              (Abs(lastGrain.vals[x]) >= 1000 /\ lastGrain.in[x].r \in 1..254)
                  => lastGrain.out[x].r # lastGrain.in[x].r

\* the buffer handed to the pass was changed by it
C5_Witness ==
    /\ GrainRan
    /\ lastGrain.out # lastGrain.in
    /\ lastGrain.in = originalImage.data

\* C6 as stated: the results of two calls are distinct buffers and the
\* earlier result keeps its pixels and dimensions after the later call.
C6_EarlierResultKept ==
    Len(results) = 2 =>
        /\ results[1].canvas # results[2].canvas
        /\ canvases[results[1].canvas] = results[1].snapshot

GrainRejected == lastGrain.path = "rejected"

\* C11 as stated: a grain call on an image whose width or height is <= 0 is
\* refused before any work is done: it is reported to the caller and the
\* shared canvas keeps the pixels and the size it had.
C11_InvalidCallChangesNothing ==
    [][(GrainRejected' /\ ~GrainRejected) => canvases' = canvases]_vars

-----------------------------------------------------------------------------
(* Properties of the two stages together                                   *)

LutRan == lastLut.result.outcome # "never"

\* C2: no stage changes an alpha sample: the grain pass keeps every pixel's
\* alpha, a resolved applyLUT call returns every pixel's alpha as it got it,
\* and after any sequence of grain and LUT stages the canvas has the alpha
\* samples of the image.
C2_AlphaPreserved ==
    /\ \A x \in GrainPixels : lastGrain.out[x].a = lastGrain.in[x].a
    /\ (LutRan /\ lastLut.result.ok) =>
           /\ Len(lastLut.result.imageData.data) = Len(lastLut.in.data)
           /\ \A x \in 1..Len(lastLut.in.data) :
                  lastLut.result.imageData.data[x].a = lastLut.in.data[x].a
    /\ GrainRan =>
           /\ Len(canvases[GrainCanvas].data) = Len(originalImage.data)
           /\ \A x \in 1..Len(originalImage.data) :
                  canvases[GrainCanvas].data[x].a = originalImage.data[x].a

\* a translucent pixel went through the fast grain path and a LUT that
\* changed its colour
C2_Witness ==
    /\ lastGrain.path = "optimized"
    /\ lastGrain.out # lastGrain.in
    /\ lastLut.result.outcome = "applied"
    /\ lastLut.in.data = lastGrain.out
    /\ lastLut.result.imageData.data[1].r # lastLut.in.data[1].r
    /\ lastLut.result.imageData.data[1].a = 128
    /\ canvases[GrainCanvas] = lastLut.result.imageData

\* the table of the call's identifier could not be had from the cache: there
\* is no entry, or the entry has no table and loading one failed
NoTableInCache(call) ==
    \/ ~call.entry.present
    \/ /\ ~call.entry.loaded
       /\ ~(call.fetch.ok /\ parseCUBEFile(call.fetch.content).ok)

-----------------------------------------------------------------------------
(* Properties of the runs of FujiGrainApp.applyGrain                       *)

Completed == {completed[k] : k \in 1..Len(completed)}

\* the LUT of the run could not be resolved: its identifier has no cache
\* entry, or its table could not be fetched or parsed
LutUnresolved(r) == r.lut \in {"missing", "loadFailed"}

\* C4: two runs of applyGrain on the same image with the same settings and
\* the same resolved LUT publish the same pixels.
C4_SameInputsSamePixels ==
    \A r1, r2 \in Completed :
        (/\ r1.image = r2.image
         /\ r1.settings = r2.settings
         /\ r1.lut = r2.lut
         /\ r1.table = r2.table)
            => r1.grainOnly = r2.grainOnly /\ r1.published = r2.published

\* C8: a run that transforms its grain-only buffer with a table does so with
\* exactly lutStrength, and with lutStrength = 0 and a LUT selected a run
\* publishes the grain-only buffer.
C8_LutStageGetsLutStrength ==
    \A r \in Completed :
        WantsLUT(r.settings) =>
            /\ r.lut = "applied" => r.strength = r.settings.lutStrength
            /\ r.settings.lutStrength = 0 => r.published = r.grainOnly

\* C9: a run whose grain stage succeeded and whose LUT could not be resolved
\* still completes, and publishes exactly its grain-only buffer.
C9_UnresolvedLutPublishesGrainOnly ==
    \A r \in Completed : LutUnresolved(r) => r.published = r.grainOnly

\* C10: a run whose LUT could not be resolved tells its caller so: it shows
\* something else than the run that applied its LUT shows.
C10_UnresolvedLutReported ==
    \A r \in Completed : LutUnresolved(r) => r.toasts # <<"success:applied">>

\* the run that completed last
LastCompleted == completed[Len(completed)]

\* the per-pixel pass of the LUT stage was started in run r
LutStageRan(r) == r.lut \in {"applied", "threw"}

\* r.grainOnly is what the grain stage makes of the image and the settings of r
IsGrainOutput(r) ==
    /\ r.grainOnly.width = r.image.width
    /\ \E d \in FewDraws :
          r.grainOnly.data =
              GrainPass(r.image.data,
                        OptimizedGrainValues(r.image.data, r.settings,
                                             [x \in 1..r.image.width |-> d]))

\* C12: every completed run ran the grain stage on its image first; its LUT
\* stage was entered exactly when applyLUT is on and the selection is not
\* "none", it got the grain stage's output as its input, and it ran its
\* per-pixel pass exactly when, in addition, a table was resolved for the
\* selection (found loaded in the cache, or fetched and parsed).
C12_GrainThenGatedLut ==
    /\ \A r \in Completed :
          /\ IsGrainOutput(r)
          /\ (r.lut # "skipped") <=>
                 (r.settings.applyLUT /\ r.settings.selectedLUT # "none")
          /\ LutStageRan(r) => r.lut # "skipped"
    /\ (completed # <<>> /\ LastCompleted.lut # "skipped") =>
          /\ lastLut.in = LastCompleted.grainOnly
          /\ lastLut.name = LastCompleted.settings.selectedLUT
          /\ LutStageRan(LastCompleted) <=> ~NoTableInCache(lastLut)

\* a run fetched the table of its selection and published a buffer that the
\* LUT stage made of its grain-only buffer, and a run with the LUT switched
\* off published its grain-only buffer
C12_Witness ==
    /\ Len(completed) = 2
    /\ completed[1].lut = "skipped"
    /\ completed[1].settings.selectedLUT # "none"
    /\ completed[1].published = completed[1].grainOnly
    /\ completed[2].lut = "applied"
    /\ lastLut.fetch.ok
    /\ completed[2].published = lastLut.result.imageData
    /\ completed[2].published # completed[2].grainOnly

\* the values of #isoSelect a run can find
AppIsoNames == {"auto", "800", "3200"}

\* the buffers that hold the grain stage's changes on every pixel of an image
WholeGrain ==
    {[width |-> img.width,
      data  |-> GrainPass(img.data,
                          OptimizedGrainValues(img.data, [ResetSettings EXCEPT !.iso = iso],
                                               [x \in 1..img.width |-> d]))] :
        img \in AppImages, iso \in AppIsoNames, d \in FewDraws}

\* the buffers that hold, on every pixel, the changes of the LUT stage of a
\* completed run that applied its table
WholeLut ==
    UNION {{applyLUTTransformation(g, q.table, q.strength).imageData : g \in WholeGrain} :
              q \in {r \in Completed : r.lut = "applied"}}

\* C13 as stated: the buffer a run publishes is never partly transformed: it
\* is an image with none of a stage's changes, or it holds the grain stage's
\* changes on every pixel, or it holds the LUT stage's changes on every pixel
\* of such a buffer; and after a LUT pass that threw, or a LUT that was not
\* resolved, it holds none of the LUT stage's changes.
C13_PublishedBufferIsWhole ==
    \A r \in Completed :
        /\ r.published \in AppImages \cup WholeGrain \cup WholeLut
        /\ r.lut # "applied" => r.published \in AppImages \cup WholeGrain

-----------------------------------------------------------------------------
(* Properties of single functions                                          *)

\* a sampleLUT3D call at a corner of a table with exactly size^3 rows
CornerQuery(c) ==
    /\ c.fn = "sampleLUT3D"
    /\ c.args[1].size >= 2
    /\ Len(c.args[1].data) = c.args[1].size * c.args[1].size * c.args[1].size
    /\ c.args[2] \in {0, 1000} /\ c.args[3] \in {0, 1000} /\ c.args[4] \in {0, 1000}

\* the row at linear index b(n-1)n^2 + g(n-1)n + r(n-1), r, g, b in {0, 1}
CornerRow(lut, r, g, b) ==
    lut.data[b * (lut.size - 1) * lut.size * lut.size + g * (lut.size - 1) * lut.size
                 + r * (lut.size - 1) + 1]

\* C14: for a table of edge length n >= 2 with exactly n^3 rows, sampleLUT3D at
\* a corner query (r, g, b each 0 or 1) returns exactly the stored row at
\* linear index b(n-1)n^2 + g(n-1)n + r(n-1).
C14_CornerQueryReturnsStoredRow ==
    \A k \in 1..Len(calls) : LET c == calls[k] IN
        CornerQuery(c) =>
            /\ c.result.ok
            /\ c.result.color = CornerRow(c.args[1], c.args[2] \div 1000,
                                          c.args[3] \div 1000, c.args[4] \div 1000)

\* the corner r = 1, g = 0, b = 1 of a table of edge length 3 was sampled and
\* gave row 20, and the corner r = g = b = 1 of a table of edge length 2 gave
\* row 7
C14_Witness ==
    /\ Len(calls) = 2
    /\ CornerQuery(calls[1]) /\ CornerQuery(calls[2])
    /\ calls[1].args[1].size = 3
    /\ <<calls[1].args[2], calls[1].args[3], calls[1].args[4]>> = <<1000, 0, 1000>>
    /\ calls[1].result.color = calls[1].args[1].data[21]
    /\ calls[1].result.color # calls[1].args[1].data[1]
    /\ calls[2].args[1].size = 2
    /\ <<calls[2].args[2], calls[2].args[3], calls[2].args[4]>> = <<1000, 1000, 1000>>
    /\ calls[2].result.color = calls[2].args[1].data[8]

\* the lines of a payload that are data rows: three tokens, not a comment,
\* TITLE or LUT_3D_SIZE line
DataRows(content) ==
    {k \in 1..Len(content) : content[k].kind = "tokens" /\ Len(content[k].vals) = 3}

MidtoneAndExtreme ==
    /\ Len(calls) = 2
    /\ calls[1].fn = "_getAdaptiveStrength"
    /\ calls[2].fn = "_getAdaptiveStrength"
    /\ calls[1].args[1] = 500
    /\ calls[2].args[1] \in {0, 1000}
    /\ calls[1].args[2] = calls[2].args[2]

\* C17 as stated: for the same base intensity the adaptive strength at
\* luminance 0.5 is strictly greater than at luminance 0.0 and at 1.0.
C17_MidtoneStrictlyStronger ==
    MidtoneAndExtreme => calls[1].result > calls[2].result

\* C17 amended: for the same base intensity greater than 0 the adaptive
\* strength at luminance 0.5 is strictly greater than at luminance 0.0 and at
\* 1.0; for base intensity 0 it is 0 at every luminance.
C17_MidtoneStrongerForPositiveBase ==
    /\ (MidtoneAndExtreme /\ calls[1].args[2] > 0) => calls[1].result > calls[2].result
    /\ \A k \in 1..Len(calls) : LET c == calls[k] IN
          (c.fn = "_getAdaptiveStrength" /\ c.args[2] = 0) => c.result = 0

\* strength 0.7 at ISO 800: the whole base intensity at luminance 0.5, and
\* between 0.4 and 0.6 of it at luminance 1.0
C17_Witness ==
    /\ MidtoneAndExtreme
    /\ calls[1].args[2] = 175
    /\ calls[2].args[1] = 1000
    /\ calls[1].result = 175
    /\ calls[2].result > 70 /\ calls[2].result < 105

\* C18 as stated: _getIsoParameters returns the key's own profile for each of
\* the six keys and the 800 profile for every other value; what it returns is
\* always one of the six profiles.
C18_OwnProfileOrProfile800 ==
    \A k \in 1..Len(calls) : LET c == calls[k] IN
        c.fn = "_getIsoParameters" =>
            /\ c.args[1] \in IsoKeys => c.result = IsoTable(c.args[1])
            /\ c.args[1] \notin IsoKeys => c.result = IsoTable("800")
            /\ \E key \in IsoKeys : c.result = IsoTable(key)

-----------------------------------------------------------------------------
(* Properties of the page                                                  *)

\* C19: originalImage changes only in the step in which the image of a newly
\* chosen, validated file finishes loading; no step of applyGrain or of
\* applyLUTToCanvas, no resetImage, downloadResult or setting update changes it.
C19_OriginalChangesOnlyOnLoad ==
    [][originalImage' # originalImage => FileImageLoaded]_vars

\* a run published a buffer that differs from its image, the image was reset
\* afterwards, and originalImage still is the image that was loaded
C19_Witness ==
    /\ budget.apply = 1
    /\ runs = <<>>
    /\ Len(completed) = 1
    /\ completed[1].lut = "applied"
    /\ completed[1].published # completed[1].image
    /\ processedCanvas = 0
    /\ currentSettings = ResetSettings
    /\ budget.files = 1
    /\ originalImage = completed[1].image
    /\ canvases[DisplayCanvas] = originalImage

\* an applyLUT call for identifier id made now would transform with the table
\* in the cache, without a fetch
UsesCachedTable(cache, id) == LookupLUT(cache, id, 1000) = "transform"

\* C20 as stated: once the table of an identifier has been loaded, every
\* later applyLUT call for the identifier uses the cached table and fetches
\* nothing (clearCache is never called by the page).
C20_LoadedTableStaysCached ==
    [][\A id \in LutIds :
          UsesCachedTable(lutCache, id) => UsesCachedTable(lutCache', id)]_vars

\* C21 as stated: for every table parseCUBEFile returns and every query with
\* r, g, b in [0,1], each of the 8 corner fetches of sampleLUT3D reads an index
\* in [0, data.length - 1], so every fetched corner is a row of the table.
C21_EveryCornerIsARow ==
    \A k \in 1..Len(calls) : LET c == calls[k] IN
        (/\ c.fn = "sampleLUT3D"
         /\ c.args[2] \in 0..1000 /\ c.args[3] \in 0..1000 /\ c.args[4] \in 0..1000)
            => c.result.ok

\* a payload line of exactly three tokens that are all numbers
IsNumberRow(line) ==
    /\ line.kind = "tokens"
    /\ Len(line.vals) = 3
    /\ \A j \in 1..3 : line.vals[j] # NaN

\* the rows C22 expects of a payload: its lines of three numbers, in file
\* order, each channel clamped to [0,1]
NumberRows(content) ==
    LET lines == SelectSeq(content, IsNumberRow)
    IN  [k \in 1..Len(lines) |->
            [r |-> Max(0, Min(1000, lines[k].vals[1])),
             g |-> Max(0, Min(1000, lines[k].vals[2])),
             b |-> Max(0, Min(1000, lines[k].vals[3]))]]

\* C22 as stated: the rows of a parsed table are exactly the payload lines
\* that are not blank, comment, TITLE or LUT_3D_SIZE lines and consist of
\* exactly 3 numbers, in file order; any other line adds no row.
C22_RowsAreTheNumberLines ==
    \A k \in 1..Len(calls) : LET c == calls[k] IN
        c.fn = "parseCUBEFile" =>
            /\ Len(c.result.lut.data) = Len(NumberRows(c.args[1]))
            /\ \A j \in 1..Len(c.result.lut.data) :
                  c.result.lut.data[j] = NumberRows(c.args[1])[j]

\* C23 as stated: every channel of every row of a table that parseCUBEFile
\* returns (and that a load then stores in the cache) is a number in [0,1].
C23_ParsedChannelsInUnitRange ==
    \A k \in 1..Len(calls) : LET c == calls[k] IN
        (c.fn = "parseCUBEFile" /\ c.result.ok) =>
            \A j \in 1..Len(c.result.lut.data) :
                /\ c.result.lut.data[j].r \in 0..1000
                /\ c.result.lut.data[j].g \in 0..1000
                /\ c.result.lut.data[j].b \in 0..1000

\* C24 as stated: for every positive integer ISO getRecommendedIso returns one
\* of 100, 200, 400, 800, 1600, 3200, and it returns 800 when the EXIF data
\* or its ISO field is absent.
C24_RecommendedIsoIsAPreset ==
    \A k \in 1..Len(calls) : LET c == calls[k] IN
        c.fn = "getRecommendedIso" =>
            /\ c.result \in {100, 200, 400, 800, 1600, 3200}
            /\ c.args[1] = 0 => c.result = 800

\* C25: whatever calls of getAvailableLUTs and applyLUT overlap,
\* _initializeInternal is called at most once, and an applyLUT call that
\* awaited initialize goes on only once isInitialized is true
C25_InitializedOnceBeforeResuming ==
    /\ initStarts <= 1
    /\ \A i \in 1..Len(runs) : runs[i].pc \in {"resume", "fetch"} => isInitialized

\* two applyLUT calls awaited the one initialisation and both go on after it
C25_Witness ==
    /\ isInitialized
    /\ initStarts = 1
    /\ Len(runs) = 2
    /\ \A i \in 1..2 : runs[i].pc = "resume"

\* C26: once a run's loadExternalLUT has failed for an identifier, an
\* applyLUT call for that identifier returns its input without fetching
C26_FailedLutStaysEvicted ==
    \A k \in 1..Len(completed) :
        completed[k].lut = "loadFailed"
            => LookupLUT(lutCache, completed[k].settings.selectedLUT, 1000) = "return"

\* C27: the Download button is enabled only while processedCanvas is not null
C27_DownloadOnlyWithResult == downloadEnabled => processedCanvas # 0

\* C28: while processedCanvas is not null and Download is enabled, the result
\* was computed by a run whose grain stage read the image that is loaded now
C28_ResultIsOfLoadedImage ==
    (processedCanvas # 0 /\ downloadEnabled) => LastCompleted.image = originalImage

\* C29: at most one applyGrain run is in progress, and while one is, Apply,
\* Reset and Download are disabled
C29_OneRunControlsOff ==
    /\ Len(runs) <= 1
    /\ runs # <<>> => ~controlsEnabled /\ ~downloadEnabled

\* C30: the step that ends an applyGrain run hides the loading indicator and
\* re-enables the controls, and, pending timers and fetches settling, every
\* run that was started ends
C30_EveryRunEndsWithControlsBack ==
    /\ [][Len(runs') < Len(runs) => ~loading' /\ controlsEnabled']_vars
    /\ (runs # <<>>) ~> (runs = <<>> /\ ~loading /\ controlsEnabled)

\* both runs have ended, one of them after its LUT could not be loaded
C30_Witness ==
    /\ budget.apply = MaxApply
    /\ runs = <<>>
    /\ ~loading
    /\ controlsEnabled
    /\ lastLut.result.outcome = "loadFailed"

====
